---- MODULE Spec2Model ----
(***************************************************************************)
(* A model of MiniGit (src/minigit.py): a content-addressed object store,  *)
(* a staging index kept in one JSON file, and commit snapshots.            *)
(*                                                                         *)
(* Text is modelled as a sequence of tokens.  Every token is a pair        *)
(* <<kind, payload>>:                                                      *)
(*    <<"chr", c>>      one character of a working-tree file               *)
(*    <<"punct", s>>    a JSON brace                                       *)
(*    <<"key", s>>      a JSON string in key position                      *)
(*    <<"str", s>>      a JSON string value holding a commit message       *)
(*    <<"id", h>>       a JSON string value holding a hex digest h         *)
(* A hex digest is <<"sha1", text>>: SHA-1 is modelled as a collision-free *)
(* digest, so two digests are equal exactly when the hashed texts are.     *)
(***************************************************************************)
EXTENDS Integers, Sequences, FiniteSets, TLC

VARIABLES
    repo_dir,      \* whether the repository root directory exists
    objects_dir,   \* the objects directory: whether it exists, and its files
    index_file,    \* the index file: whether it exists, and its text
    constructed,   \* whether a MiniGit handle has been constructed
    call,          \* the last call: operation, argument, result, printed lines,
                   \* and whether the call before it was the same call
    produced,      \* history: per path, the digest its latest completed add computed
    seen,          \* history: the <<case, result, printed texts>> of past add/commit calls
    log,           \* history: the commits stored so far, in any repository at the root
    pc             \* where a call of add that runs step by step stands

vars ==
    <<repo_dir, objects_dir, index_file, constructed, call, produced, seen, log, pc>>

(* Bound on the number of files in the objects directory. *)
MaxObjects == 3

(* Bound on the number of commits the history log holds. *)
MaxLog == 2

(* The paths and the commit messages the caller uses. *)
Paths == {"a.txt", "b.txt"}
Messages == {"m1", "m2"}

Chr(c) == <<"chr", c>>
CR == Chr("\r")
LF == Chr("\n")

(* The bytes a working-tree file may hold when add looks at it. *)
FileBytes ==
    { <<>>, <<Chr("a"), LF>>, <<Chr("a"), CR, LF>>, <<Chr("b")>> }

(* What the file system holds at a path when add is called. *)
FileStates ==
    { [kind |-> "absent", bytes |-> <<>>], [kind |-> "dir", bytes |-> <<>>] }
    \cup { [kind |-> "file", bytes |-> b] : b \in FileBytes }

(* os.path.exists(file_path), when the file system holds f there. *)
exists_always(f) == TRUE

exists(f) == f.kind # "absent"

(* f.read() of a file opened with mode 'r': universal newlines, so "\r\n"  *)
(* and a lone "\r" both read as "\n".                                      *)
RECURSIVE TextRead(_)
TextRead(bytes) ==
    IF bytes = <<>> THEN <<>>
    ELSE IF Head(bytes) = CR
         THEN IF Len(bytes) >= 2 /\ bytes[2] = LF
              THEN <<LF>> \o TextRead(SubSeq(bytes, 3, Len(bytes)))
              ELSE <<LF>> \o TextRead(Tail(bytes))
         ELSE <<Head(bytes)>> \o TextRead(Tail(bytes))

(* hashlib.sha1(data.encode()).hexdigest() *)
_hash_object(data) == <<"sha1", data>>

(* The value of a variable that holds no digest. *)
NoId == <<"none">>

(* ---- Python dict, kept as the sequence of its <<key, value>> items in   *)
(* insertion order ----                                                    *)
DictKeys(d) == { d[i][1] : i \in 1..Len(d) }

DictValues(d) == { d[i][2] : i \in 1..Len(d) }

DictGet(d, k) == d[CHOOSE i \in 1..Len(d) : d[i][1] = k][2]

(* not d : a dict is false exactly when it has no items. *)
not_never(d) == FALSE

not(d) == d = <<>>

(* d[k] = v : an existing key keeps its position, a new key goes last. *)
DictSetDefault(d, k, v) ==
    IF k \in DictKeys(d) THEN d ELSE Append(d, <<k, v>>)

DictSetOnly(d, k, v) == <<<<k, v>>>>

(* d[k] = v *)
DictSet(d, k, v) ==
    IF k \in DictKeys(d)
    THEN [i \in 1..Len(d) |-> IF d[i][1] = k THEN <<k, v>> ELSE d[i]]
    ELSE Append(d, <<k, v>>)

(* ---- JSON ---- *)
LB == <<"punct", "{">>
RB == <<"punct", "}">>

RECURSIVE json_items(_)
json_items(d) ==
    IF d = <<>> THEN <<>>
    ELSE <<<<"key", Head(d)[1]>>, <<"id", Head(d)[2]>>>> \o json_items(Tail(d))

(* json.dump of a dict of path -> digest: the items in dict order. *)
json_dump(d) == <<LB>> \o json_items(d) \o <<RB>>

(* Whether a text is a JSON object of string keys and digest values. *)
json_valid(text) ==
    /\ Len(text) >= 2
    /\ (Len(text) % 2) = 0
    /\ text[1] = LB
    /\ text[Len(text)] = RB
    /\ \A i \in 2..(Len(text) - 1) :
          text[i][1] = (IF (i % 2) = 0 THEN "key" ELSE "id")

(* json.load of a valid text: the dict of its items, in text order.  A key *)
(* that occurs twice keeps its first position and its last value.          *)
RECURSIVE json_pairs(_, _)
json_pairs(text, d) ==
    IF Len(text) < 2 THEN d
    ELSE json_pairs(SubSeq(text, 3, Len(text)),
                    DictSet(d, text[1][2], text[2][2]))

json_load(text) == json_pairs(SubSeq(text, 2, Len(text) - 1), <<>>)

(* json.dumps with sort_keys=True, which the code does not pass. *)
PathOrder == <<"a.txt", "b.txt">>

SortedItems(d) ==
    LET present == SelectSeq(PathOrder, LAMBDA k : k \in DictKeys(d))
    IN  [i \in 1..Len(present) |-> <<present[i], DictGet(d, present[i])>>]

json_dumps_sorted(commit) ==
    <<LB, <<"key", "message">>, <<"str", commit.message>>,
      <<"key", "files">>>> \o json_dump(SortedItems(commit.files)) \o <<RB>>

(* json.dumps of a commit that also carries a field that changes from one  *)
(* commit to the next, which the code does not add.                        *)
json_dumps_stamped(commit) ==
    <<LB, <<"key", "message">>, <<"str", commit.message>>,
      <<"key", "files">>>> \o json_dump(commit.files) \o <<RB>>
    \o [i \in 1..Cardinality(DOMAIN objects_dir.files) |-> <<"chr", "#">>]

(* json.dumps({'message': message, 'files': index}, indent=4) *)
json_dumps_nofiles(commit) ==
    <<LB, <<"key", "message">>, <<"str", commit.message>>,
      <<"key", "files">>>> \o json_dump(<<>>) \o <<RB>>

json_dumps(commit) ==
    <<LB, <<"key", "message">>, <<"str", commit.message>>,
      <<"key", "files">>>> \o json_dump(commit.files) \o <<RB>>

(* Whether a stored text is a serialized commit. *)
IsCommit(text) ==
    /\ Len(text) >= 7
    /\ SubSeq(text, 1, 2) = <<LB, <<"key", "message">>>>
    /\ text[3][1] = "str"
    /\ text[4] = <<"key", "files">>
    /\ text[Len(text)] = RB
    /\ json_valid(SubSeq(text, 5, Len(text) - 1))

(* json.loads of a serialized commit. *)
json_loads(text) ==
    [message |-> text[3][2],
     files   |-> json_load(SubSeq(text, 5, Len(text) - 1))]

(* ---- the repository on disk ---- *)

(* open(path, 'w') then write, in the objects directory: the file named    *)
(* name now holds text, whatever it held before.                           *)
WriteObjectAlone(dir, name, text) ==
    [dir EXCEPT !.files = (name :> text)]

WriteObjectSkipped(dir, name, text) == dir

WriteObjectNumbered(dir, name, text) ==
    LET serial == [i \in 1..Cardinality(DOMAIN dir.files) |-> <<"chr", "#">>]
    IN  [dir EXCEPT !.files = (<<"sha1", serial \o text>> :> text) @@ dir.files]

WriteObject(dir, name, text) ==
    [dir EXCEPT !.files = (name :> text) @@ dir.files]

Objects == DOMAIN objects_dir.files

(* _write_index: the index file after the write. *)
_write_index(index_data) == [exists |-> TRUE, data |-> json_dump(index_data)]

(* _read_index: the dict in the index file, {} when there is no file. *)
_read_index == IF index_file.exists THEN json_load(index_file.data) ELSE <<>>

None == <<"None">>
Raise(e) == <<"raise", e>>

(* No call of add is under way. *)
Idle == [at |-> "idle", crashed |-> FALSE, path |-> "",
         file |-> [kind |-> "absent", bytes |-> <<>>],
         hash |-> NoId, content |-> <<>>, old |-> <<>>, new |-> <<>>]

Init ==
    /\ repo_dir = FALSE
    /\ objects_dir = [exists |-> FALSE, files |-> <<>>]
    /\ index_file = [exists |-> FALSE, data |-> <<>>]
    /\ constructed = FALSE
    /\ call = [op |-> "", arg |-> "", file |-> [kind |-> "absent", bytes |-> <<>>],
               ret |-> None, out |-> <<>>, rep |-> FALSE]
    /\ produced = [p \in Paths |-> NoId]
    /\ seen = {}
    /\ log = {}
    /\ pc = Idle

(* os.makedirs(repo_dir); os.makedirs(objects_dir); _write_index({}) *)
CreateRepositoryNoIndex ==
    /\ repo_dir' = TRUE
    /\ objects_dir' = [exists |-> TRUE, files |-> <<>>]
    /\ UNCHANGED index_file

CreateRepository ==
    /\ repo_dir' = TRUE
    /\ objects_dir' = [exists |-> TRUE, files |-> <<>>]
    /\ index_file' = _write_index(<<>>)

Returned(op, arg, file, ret, out) ==
    call' = [op |-> op, arg |-> arg, file |-> file, ret |-> ret, out |-> out,
             rep |-> (call.op = op /\ call.arg = arg /\ call.file = file)]

NoFileArg == [kind |-> "absent", bytes |-> <<>>]

(* MiniGit(repo_dir): the constructor. *)
NewAlwaysCreates ==
    /\ CreateRepository
    /\ constructed' = TRUE
    /\ Returned("__init__", "", NoFileArg, None,
                <<<<"Initialized empty MiniGit repository", NoId>>>>)
    /\ UNCHANGED produced

NewCreatesNothing ==
    /\ UNCHANGED <<repo_dir, objects_dir, index_file>>
    /\ constructed' = TRUE
    /\ Returned("__init__", "", NoFileArg, None,
                <<<<"Initialized empty MiniGit repository", NoId>>>>)
    /\ UNCHANGED produced

New ==
    /\ IF ~repo_dir
       THEN CreateRepository
       ELSE UNCHANGED <<repo_dir, objects_dir, index_file>>
    /\ constructed' = TRUE
    /\ Returned("__init__", "", NoFileArg, None,
                <<<<"Initialized empty MiniGit repository", NoId>>>>)
    /\ UNCHANGED produced

(* MiniGit.init *)
init ==
    /\ constructed
    /\ IF repo_dir
       THEN /\ UNCHANGED <<repo_dir, objects_dir, index_file>>
            /\ Returned("init", "", NoFileArg, None,
                        <<<<"Repository already initialized.", NoId>>>>)
       ELSE /\ CreateRepository
            /\ Returned("init", "", NoFileArg, None,
                        <<<<"Initialized empty MiniGit repository", NoId>>>>)
    /\ UNCHANGED <<constructed, produced>>

(* MiniGit.add, called when the file system holds f at file_path. *)
add(file_path, f) ==
    /\ constructed
    /\ IF ~exists(f)
       THEN /\ UNCHANGED <<objects_dir, index_file, produced>>
            /\ Returned("add", file_path, f, None,
                        <<<<"File does not exist.", <<"path", file_path>>>>>>)
       ELSE IF f.kind = "dir" \/ ~objects_dir.exists
       THEN /\ UNCHANGED <<objects_dir, index_file, produced>>
            /\ Returned("add", file_path, f, Raise("OSError"), <<>>)
       ELSE LET content == TextRead(f.bytes)
                file_hash == _hash_object(content)
            IN  /\ objects_dir' = WriteObject(objects_dir, file_hash, content)
                /\ IF index_file.exists /\ ~json_valid(index_file.data)
                   THEN /\ UNCHANGED <<index_file, produced>>
                        /\ Returned("add", file_path, f,
                                    Raise("JSONDecodeError"), <<>>)
                   ELSE /\ index_file' =
                              _write_index(DictSet(_read_index, file_path, file_hash))
                        /\ produced' = [produced EXCEPT ![file_path] = file_hash]
                        /\ Returned("add", file_path, f, None,
                                    <<<<"Added file to the index.",
                                        <<"path", file_path>>>>>>)
    /\ Cardinality(DOMAIN objects_dir'.files) <= MaxObjects
    /\ UNCHANGED <<repo_dir, constructed>>

(* The body of MiniGit.commit: what it reads, writes and prints. *)
CommitObjects(message) ==
    /\ constructed
    /\ IF index_file.exists /\ ~json_valid(index_file.data)
       THEN /\ UNCHANGED objects_dir
            /\ Returned("commit", message, NoFileArg,
                        Raise("JSONDecodeError"), <<>>)
       ELSE LET index == _read_index
            IN  IF not(index)
                THEN /\ UNCHANGED objects_dir
                     /\ Returned("commit", message, NoFileArg, None,
                                 <<<<"No changes to commit.", NoId>>>>)
                ELSE LET commit_data ==
                             json_dumps([message |-> message, files |-> index])
                         commit_hash == _hash_object(commit_data)
                     IN  IF ~objects_dir.exists
                         THEN /\ UNCHANGED objects_dir
                              /\ Returned("commit", message, NoFileArg,
                                          Raise("OSError"), <<>>)
                         ELSE /\ objects_dir' =
                                    WriteObject(objects_dir, commit_hash, commit_data)
                              /\ Returned("commit", message, NoFileArg, None,
                                     <<<<"Committed with message", <<"msg", message>>>>,
                                       <<"Commit hash", commit_hash>>>>)
    /\ Cardinality(DOMAIN objects_dir'.files) <= MaxObjects

(* MiniGit.commit: it writes nothing but the commit object. *)
commit_resets_index(message) ==
    /\ CommitObjects(message)
    /\ index_file' = _write_index(<<>>)
    /\ UNCHANGED <<repo_dir, constructed, produced>>

commit(message) ==
    /\ CommitObjects(message)
    /\ UNCHANGED <<repo_dir, index_file, constructed, produced>>

(* The case of add or commit a call record belongs to, by its inputs. *)
Case(c) ==
    IF c.op = "add"
    THEN IF c.file.kind = "absent" THEN "add.missing"
         ELSE IF c.file.kind = "file" /\ c.ret[1] # "raise" THEN "add.ok"
         ELSE "add.raise"
    ELSE IF c.op = "commit"
    THEN IF c.ret[1] = "raise" THEN "commit.raise"
         ELSE IF _read_index = <<>> THEN "commit.empty"
         ELSE "commit.ok"
    ELSE c.op

(* The texts of the printed lines, without their arguments. *)
OutTexts(c) == [i \in 1..Len(c.out) |-> c.out[i][1]]

Outcome(c) == <<Case(c), c.ret, OutTexts(c)>>

Cases == {"add.missing", "add.ok", "commit.empty", "commit.ok"}

(* The history of outcomes, recorded only under SpecOutcomes. *)
Observe ==
    seen' = IF Case(call') \in Cases THEN seen \cup {Outcome(call')} ELSE seen

Next ==
    \/ New /\ UNCHANGED <<seen, log, pc>>
    \/ init /\ UNCHANGED <<seen, log, pc>>
    \/ \E file_path \in Paths, f \in FileStates :
          add(file_path, f) /\ UNCHANGED <<seen, log, pc>>
    \/ \E message \in Messages : commit(message) /\ UNCHANGED <<seen, log, pc>>

Spec == Init /\ [][Next]_vars

NextOutcomes ==
    \/ New /\ Observe /\ UNCHANGED <<log, pc>>
    \/ init /\ Observe /\ UNCHANGED <<log, pc>>
    \/ \E file_path \in Paths, f \in FileStates :
          add(file_path, f) /\ Observe /\ UNCHANGED <<log, pc>>
    \/ \E message \in Messages : commit(message) /\ Observe /\ UNCHANGED <<log, pc>>

SpecOutcomes == Init /\ [][NextOutcomes]_vars

(* The environment removes the repository root between two uses; the next  *)
(* constructor call finds it absent and creates it again.                  *)
RemoveRoot ==
    /\ repo_dir
    /\ repo_dir' = FALSE
    /\ objects_dir' = [exists |-> FALSE, files |-> <<>>]
    /\ index_file' = [exists |-> FALSE, data |-> <<>>]
    /\ produced' = [p \in Paths |-> NoId]
    /\ Returned("rmtree", "", NoFileArg, None, <<>>)
    /\ UNCHANGED <<constructed, seen, log, pc>>

(* The history of commits: the message, the Index items in their order and *)
(* the digest printed, for each commit that stored an object.              *)
Record ==
    /\ log' = IF call'.op = "commit" /\ Len(call'.out) = 2
              THEN log \cup {[message |-> call'.arg,
                              files   |-> _read_index,
                              id      |-> call'.out[2][2]]}
              ELSE log
    /\ Cardinality(log') <= MaxLog

(* The working-tree files of the runs that recreate the repository. *)
RecreateFileStates == { [kind |-> "file", bytes |-> <<Chr("b")>>] }

NextRecreate ==
    \/ New /\ Record /\ UNCHANGED <<seen, pc>>
    \/ init /\ Record /\ UNCHANGED <<seen, pc>>
    \/ \E file_path \in Paths, f \in RecreateFileStates :
          add(file_path, f) /\ Record /\ UNCHANGED <<seen, pc>>
    \/ \E message \in Messages : commit(message) /\ Record /\ UNCHANGED <<seen, pc>>
    \/ RemoveRoot

SpecRecreate == Init /\ [][NextRecreate]_vars

(* ---- add, step by step, in a process that can be killed ----            *)

(* No call is under way: none was started, or the process was killed. *)
Quiescent == pc.at = "idle" \/ pc.crashed

(* add up to open(object_file, 'w'): the file exists, its text is read and *)
(* hashed, and the object file is created or truncated.                    *)
AddStartIndexFirst(file_path, f) ==
    /\ constructed
    /\ Quiescent
    /\ f.kind = "file"
    /\ objects_dir.exists
    /\ index_file.exists /\ json_valid(index_file.data)
    /\ LET content == TextRead(f.bytes)
           file_hash == _hash_object(content)
       IN  pc' = [at |-> "index_read", crashed |-> FALSE, path |-> file_path,
                  file |-> f, hash |-> file_hash, content |-> content,
                  old |-> index_file.data,
                  new |-> json_dump(DictSet(_read_index, file_path, file_hash))]
    /\ UNCHANGED <<repo_dir, objects_dir, index_file, constructed, call,
                   produced, seen, log>>

AddStart(file_path, f) ==
    /\ constructed
    /\ Quiescent
    /\ f.kind = "file"
    /\ objects_dir.exists
    /\ LET content == TextRead(f.bytes)
           file_hash == _hash_object(content)
       IN  /\ objects_dir' = WriteObject(objects_dir, file_hash, <<>>)
           /\ pc' = [at |-> "blob_open", crashed |-> FALSE, path |-> file_path,
                      file |-> f, hash |-> file_hash, content |-> content,
                      old |-> index_file.data, new |-> index_file.data]
    /\ Cardinality(DOMAIN objects_dir'.files) <= MaxObjects
    /\ UNCHANGED <<repo_dir, index_file, constructed, call, produced, seen, log>>

(* f.write(content) and the close of the object file. *)
AddWriteBlob ==
    /\ pc.at = "blob_open" /\ ~pc.crashed
    /\ objects_dir' = WriteObject(objects_dir, pc.hash, pc.content)
    /\ pc' = [pc EXCEPT !.at = "blob_stored"]
    /\ UNCHANGED <<repo_dir, index_file, constructed, call, produced, seen, log>>

(* index = self._read_index(); index[file_path] = file_hash *)
AddReadIndex ==
    /\ pc.at = "blob_stored" /\ ~pc.crashed
    /\ IF index_file.exists /\ ~json_valid(index_file.data)
       THEN /\ Returned("add", pc.path, pc.file, Raise("JSONDecodeError"), <<>>)
            /\ pc' = Idle
       ELSE /\ pc' = [pc EXCEPT
                        !.at = "index_read",
                        !.new = json_dump(DictSet(_read_index, pc.path, pc.hash))]
            /\ UNCHANGED call
    /\ UNCHANGED <<repo_dir, objects_dir, index_file, constructed, produced,
                   seen, log>>

(* _write_index up to open(self.index_file, 'w'): the index file is        *)
(* truncated in place.                                                     *)
AddOpenIndex ==
    /\ pc.at = "index_read" /\ ~pc.crashed
    /\ index_file' = [exists |-> TRUE, data |-> <<>>]
    /\ pc' = [pc EXCEPT !.at = "index_open"]
    /\ UNCHANGED <<repo_dir, objects_dir, constructed, call, produced, seen, log>>

(* json.dump(index_data, f): more of the text reaches the file; with the   *)
(* last of it the file is closed and add prints and returns.               *)
AddDumpIndex ==
    /\ pc.at = "index_open" /\ ~pc.crashed
    /\ \E n \in (Len(index_file.data) + 1)..Len(pc.new) :
          /\ index_file' = [exists |-> TRUE, data |-> SubSeq(pc.new, 1, n)]
          /\ IF n = Len(pc.new)
             THEN /\ pc' = Idle
                  /\ produced' = [produced EXCEPT ![pc.path] = pc.hash]
                  /\ Returned("add", pc.path, pc.file, None,
                              <<<<"Added file to the index.",
                                  <<"path", pc.path>>>>>>)
             ELSE UNCHANGED <<pc, produced, call>>
    /\ UNCHANGED <<repo_dir, objects_dir, constructed, seen, log>>

(* The process is killed while add is under way: the handle is gone, the   *)
(* files stay as they are.                                                 *)
Crash ==
    /\ pc.at # "idle" /\ ~pc.crashed
    /\ pc' = [pc EXCEPT !.crashed = TRUE]
    /\ constructed' = FALSE
    /\ Returned("crash", pc.path, pc.file, Raise("killed"), <<>>)
    /\ UNCHANGED <<repo_dir, objects_dir, index_file, produced, seen, log>>

(* The working-tree files and the message of the runs that can be killed. *)
CrashFileStates ==
    { [kind |-> "file", bytes |-> b] : b \in { <<Chr("a"), LF>>, <<Chr("b")>> } }

CrashMessages == {"m1"}

NextCrash ==
    \/ Quiescent /\ New /\ UNCHANGED <<seen, log, pc>>
    \/ \E message \in CrashMessages :
          Quiescent /\ commit(message) /\ UNCHANGED <<seen, log, pc>>
    \/ \E file_path \in Paths, f \in CrashFileStates : AddStart(file_path, f)
    \/ AddWriteBlob
    \/ AddReadIndex
    \/ AddOpenIndex
    \/ AddDumpIndex
    \/ Crash

SpecCrash == Init /\ [][NextCrash]_vars

(* ---------------------------------------------------------------------- *)
(* Properties                                                              *)
(* ---------------------------------------------------------------------- *)

StoredText(h) == objects_dir.files[h]

(* The digests a stored object refers to: those of its files mapping when  *)
(* it is a commit, none when it is a blob.                                 *)
Referenced(h) ==
    IF IsCommit(StoredText(h))
    THEN DictValues(json_loads(StoredText(h)).files)
    ELSE {}

CommitIds == { h \in Objects : IsCommit(StoredText(h)) }

(* The last call was a commit that stored a commit object. *)
CommitSucceeded == call.op = "commit" /\ Case(call) = "commit.ok"

AddSucceeded == call.op = "add" /\ Case(call) = "add.ok"

(* The digest the last commit printed. *)
PrintedHash == call.out[2][2]

(* C1: referential integrity.  Every digest that is a value of the Index   *)
(* or of the files mapping of a stored commit names a stored object.       *)
C1_ReferentialIntegrity ==
    /\ DictValues(_read_index) \subseteq Objects
    /\ \A h \in Objects : Referenced(h) \subseteq Objects

(* A commit is stored and both paths are staged. *)
C1_Witness ==
    /\ CommitIds # {}
    /\ DictKeys(_read_index) = Paths
    /\ \E h \in CommitIds : Referenced(h) # {}

(* C2: append-only store.  A step neither removes a stored object nor      *)
(* changes its text.                                                       *)
C2_AppendOnly ==
    [][\A h \in Objects :
          /\ h \in DOMAIN objects_dir'.files
          /\ objects_dir'.files[h] = StoredText(h)]_vars

(* Two paths were added with the same content, so the second add wrote an  *)
(* object that was already stored, and a commit was stored besides.        *)
C2_Witness ==
    /\ AddSucceeded
    /\ \A p \in Paths : produced[p] = _hash_object(TextRead(call.file.bytes))
    /\ CommitIds # {}

(* C3: add of a path that does not exist changes neither the objects       *)
(* directory nor the index file.                                           *)
C3_MissingFileNoMutation ==
    [][(call'.op = "add" /\ call'.file.kind = "absent")
          => UNCHANGED <<objects_dir, index_file>>]_vars

(* add of a missing path was called on a repository that holds objects     *)
(* and a staged path.                                                      *)
C3_Witness ==
    /\ call.op = "add"
    /\ call.file.kind = "absent"
    /\ Objects # {}
    /\ _read_index # <<>>

(* C4: commit on an empty Index stores nothing, prints no hash and leaves  *)
(* the Index as it is.                                                     *)
C4_EmptyCommitRejected ==
    [][(call'.op = "commit" /\ _read_index = <<>>)
          => /\ UNCHANGED <<objects_dir, index_file>>
             /\ \A i \in 1..Len(call'.out) : call'.out[i][2] = NoId
             /\ call'.ret = None]_vars

(* commit was called on an initialized repository with nothing staged. *)
C4_Witness ==
    /\ call.op = "commit"
    /\ index_file.exists
    /\ _read_index = <<>>
    /\ Objects = {}

(* The Index as the adds built it: each path that was added, with the      *)
(* digest of its latest add.                                               *)
StagedPaths == { p \in Paths : produced[p] # NoId }

(* C5: the object a successful commit(msg) stores deserializes to the      *)
(* message msg and a files mapping that is exactly the Index: the paths    *)
(* that were added, each with the digest of its latest add.                *)
C5_CommitSnapshot ==
    CommitSucceeded =>
        /\ PrintedHash \in Objects
        /\ IsCommit(StoredText(PrintedHash))
        /\ LET c == json_loads(StoredText(PrintedHash))
           IN  /\ c.message = call.arg
               /\ c.files = _read_index
               /\ DictKeys(c.files) = StagedPaths
               /\ \A p \in StagedPaths : DictGet(c.files, p) = produced[p]

(* A commit of two staged paths that hold different contents. *)
C5_Witness ==
    /\ CommitSucceeded
    /\ StagedPaths = Paths
    /\ produced["a.txt"] # produced["b.txt"]
    /\ Cardinality(Objects \ CommitIds) = 2

(* The text commit(message) serializes when the Index is as it is now. *)
CommitText(message) == json_dumps([message |-> message, files |-> _read_index])

(* C6, as claimed: a successful commit returns the digest under which the  *)
(* commit object is stored.                                                *)
C6_ReturnsContentId ==
    CommitSucceeded =>
        /\ call.ret \in Objects
        /\ StoredText(call.ret) = CommitText(call.arg)

(* C6, amended: a successful commit returns None; the digest under which   *)
(* the commit object is stored reaches the caller only as the printed      *)
(* "Commit hash" line.                                                     *)
C6_PrintsContentId ==
    CommitSucceeded =>
        /\ call.ret = None
        /\ call.out[2][1] = "Commit hash"
        /\ PrintedHash \in Objects
        /\ StoredText(PrintedHash) = CommitText(call.arg)
        /\ PrintedHash = _hash_object(StoredText(PrintedHash))

(* The first commit of a repository with one blob. *)
C6_Witness ==
    /\ CommitSucceeded
    /\ Cardinality(CommitIds) = 1
    /\ Cardinality(Objects) = 2

SeenOf(case) == { x \in seen : x[1] = case }

(* C7, as claimed: add on a missing file returns another value than a      *)
(* successful add, and commit on an empty Index another value than a       *)
(* successful commit.                                                      *)
C7_ReturnValuesDiffer ==
    /\ \A x \in SeenOf("add.missing"), y \in SeenOf("add.ok") : x[2] # y[2]
    /\ \A x \in SeenOf("commit.empty"), y \in SeenOf("commit.ok") : x[2] # y[2]

(* C7, amended: add and commit return None whether they fail or succeed;   *)
(* the failure (missing file, empty Index) differs from the success only   *)
(* in the text that is printed.                                            *)
C7_PrintedTextsDiffer ==
    /\ \A x \in seen : x[2] = None
    /\ \A x \in SeenOf("add.missing"), y \in SeenOf("add.ok") : x[3] # y[3]
    /\ \A x \in SeenOf("commit.empty"), y \in SeenOf("commit.ok") : x[3] # y[3]

(* All four cases have happened. *)
C7_Witness == \A case \in Cases : SeenOf(case) # {}

(* The digest add stages for the file state f. *)
DigestOf(f) == _hash_object(TextRead(f.bytes))

(* C8: index overwrite.  When add stages a path that the Index maps to A   *)
(* with another digest B, the Index then maps the path to B, no item of    *)
(* the Index maps the path to A, and the object A is still stored.         *)
C8_IndexOverwrite ==
    [][(/\ call'.op = "add"
        /\ Case(call') = "add.ok"
        /\ call'.arg \in DictKeys(_read_index)
        /\ DictGet(_read_index, call'.arg) # DigestOf(call'.file))
          => LET p == call'.arg
                 A == DictGet(_read_index, p)
                 B == DigestOf(call'.file)
             IN  /\ p \in DictKeys(_read_index')
                 /\ DictGet(_read_index', p) = B
                 /\ \A i \in 1..Len(_read_index') : _read_index'[i] # <<p, A>>
                 /\ A \in DOMAIN objects_dir'.files
                 /\ objects_dir'.files[A] = StoredText(A)]_vars

(* One path is staged and two blobs are stored: the path was staged with   *)
(* one and then with the other.                                            *)
C8_Witness ==
    /\ AddSucceeded
    /\ Len(_read_index) = 1
    /\ CommitIds = {}
    /\ Cardinality(Objects) = 2
    /\ DictGet(_read_index, call.arg) = DigestOf(call.file)

(* C9: init() on an initialized repository, and the constructor on an      *)
(* existing root, change neither the index file nor any stored object.     *)
C9_ReinitTolerance ==
    [][(call'.op \in {"init", "__init__"} /\ repo_dir)
          => UNCHANGED <<index_file, objects_dir>>]_vars

(* init() or the constructor ran on a repository with a staged path and a  *)
(* stored commit.                                                          *)
C9_Witness ==
    /\ call.op \in {"init", "__init__"}
    /\ _read_index # <<>>
    /\ CommitIds # {}

(* C10: commit, successful or rejected, leaves the Index as it is.         *)
C10_CommitKeepsIndex ==
    [][call'.op = "commit"
          => /\ index_file' = index_file
             /\ _read_index' = _read_index]_vars

(* A second commit found the entries the first one left: two stored        *)
(* commits hold the files mapping that is still the Index.                 *)
C10_Witness ==
    /\ CommitSucceeded
    /\ \E h1, h2 \in CommitIds :
          /\ h1 # h2
          /\ json_loads(StoredText(h1)).files = _read_index
          /\ json_loads(StoredText(h2)).files = _read_index

(* C11: dedup.  A successful add of a file whose text is already stored    *)
(* adds no object; an Index entry that already held the digest keeps it;   *)
(* and no two stored objects ever hold the same text.                      *)
C11_DedupIdempotence ==
    [][(/\ call'.op = "add"
        /\ Case(call') = "add.ok"
        /\ \E h \in Objects : StoredText(h) = TextRead(call'.file.bytes))
          => /\ DOMAIN objects_dir'.files = Objects
             /\ Cardinality(DOMAIN objects_dir'.files) = Cardinality(Objects)
             /\ \A h1, h2 \in DOMAIN objects_dir'.files :
                   objects_dir'.files[h1] = objects_dir'.files[h2] => h1 = h2
             /\ (/\ call'.arg \in DictKeys(_read_index)
                 /\ DictGet(_read_index, call'.arg) = DigestOf(call'.file))
                   => _read_index' = _read_index]_vars

(* The same file was added twice in a row, and the other path holds the    *)
(* same content: one object is stored.                                     *)
C11_Witness ==
    /\ AddSucceeded
    /\ call.rep
    /\ \A p \in Paths : produced[p] = DigestOf(call.file)
    /\ Cardinality(Objects) = 1

(* A dict as a mapping: the set of its items, whatever their order. *)
Mapping(d) == { d[i] : i \in 1..Len(d) }

(* C12, as claimed: two commits with the same message and the same         *)
(* path -> digest mapping have the same digest, in whatever order the      *)
(* paths were staged.                                                      *)
C12_CanonicalIdentity ==
    \A c1, c2 \in log :
        (c1.message = c2.message /\ Mapping(c1.files) = Mapping(c2.files))
            => c1.id = c2.id

(* C12, amended: the serialization keeps the order in which the paths were *)
(* first staged.  Two commits with the same message and the same items in  *)
(* the same order have the same digest; with the same mapping in another   *)
(* order they have different digests.                                      *)
C12_OrderedIdentity ==
    \A c1, c2 \in log :
        c1.message = c2.message
            => /\ c1.files = c2.files => c1.id = c2.id
               /\ (Mapping(c1.files) = Mapping(c2.files) /\ c1.files # c2.files)
                     => c1.id # c2.id

(* Two commits with one message and one mapping, staged in two orders. *)
C12_Witness ==
    \E c1, c2 \in log :
        /\ c1.message = c2.message
        /\ Mapping(c1.files) = Mapping(c2.files)
        /\ c1.files # c2.files

(* C13: a commit(m) right after a successful commit(m) prints the same     *)
(* digest and leaves the objects directory, and so the commit object and   *)
(* the number of objects, as they were.                                    *)
C13_RepeatedCommit ==
    [][(/\ CommitSucceeded
        /\ call'.op = "commit"
        /\ call'.arg = call.arg)
          => /\ call'.out = call.out
             /\ call'.ret = call.ret
             /\ objects_dir' = objects_dir
             /\ Cardinality(DOMAIN objects_dir'.files) = Cardinality(Objects)]_vars

(* The same commit was made twice in a row. *)
C13_Witness ==
    /\ CommitSucceeded
    /\ call.rep
    /\ PrintedHash \in Objects

(* C14, as claimed: after an add is killed at any point, the index file is *)
(* structurally valid and is either the complete old Index or the complete *)
(* new one.                                                                *)
C14_AtomicIndexSave ==
    pc.crashed =>
        /\ index_file.exists
        /\ json_valid(index_file.data)
        /\ index_file.data \in {pc.old, pc.new}

(* The digests written in a text, read or not. *)
IdsIn(text) == { text[i][2] : i \in { j \in 1..Len(text) : text[j][1] = "id" } }

C15_Initialized ==
    [][/\ constructed'
          => (repo_dir' /\ objects_dir'.exists /\ index_file'.exists)
       /\ (~repo_dir /\ repo_dir')
          => /\ index_file'.data = json_dump(<<>>)
             /\ _read_index' = <<>>
             /\ DOMAIN objects_dir'.files = {}]_vars

(* The constructor has just created the repository. *)
C15_Witness ==
    /\ call.op = "__init__"
    /\ ~call.rep
    /\ constructed
    /\ index_file.exists
    /\ _read_index = <<>>
    /\ Objects = {}

(* C16, as claimed: after a successful add of a file holding b, the object *)
(* stored under the digest that add staged holds exactly b; and every      *)
(* stored object is named by the digest of its own text.                   *)
C16_RoundTrip ==
    /\ AddSucceeded
          => /\ produced[call.arg] \in Objects
             /\ StoredText(produced[call.arg]) = call.file.bytes
    /\ \A h \in Objects : h = _hash_object(StoredText(h))

(* C18: a successful add(p) leaves every other staged path with the digest *)
(* it had, and no step of any operation removes a path from the Index.     *)
C18_AddFrame ==
    [][/\ DictKeys(_read_index) \subseteq DictKeys(_read_index')
       /\ (call'.op = "add" /\ Case(call') = "add.ok")
          => \A q \in DictKeys(_read_index) \ {call'.arg} :
                DictGet(_read_index', q) = DictGet(_read_index, q)]_vars

(* A path was added again with new content while the other path stayed     *)
(* staged: three blobs, two Index entries.                                 *)
C18_Witness ==
    /\ AddSucceeded
    /\ Len(_read_index) = 2
    /\ CommitIds = {}
    /\ Cardinality(Objects) = 3

(* C19: init() on a constructed handle always finds the root, so it        *)
(* reports the repository as already initialized and creates and writes    *)
(* nothing.                                                                *)
C19_InitNeverCreates ==
    [][call'.op = "init"
          => /\ repo_dir
             /\ UNCHANGED <<repo_dir, objects_dir, index_file>>
             /\ call'.out = <<<<"Repository already initialized.", NoId>>>>]_vars

(* init() was called right after the constructor created the repository. *)
C19_Witness ==
    /\ call.op = "init"
    /\ ~call.rep
    /\ index_file.exists
    /\ _read_index = <<>>
    /\ Objects = {}

====
